---- MODULE Spec2Model ----
(***************************************************************************)
(* A model of the your-ical server: the on-demand calendar pipeline        *)
(* (POST /api/generate-calendar), the in-memory session store with its     *)
(* sweep and grace-delay timers (GET /api/download/:sessionId), and the    *)
(* pure functions they call (generateLocationEvents, normalizeEvents,      *)
(* generateICalendar).                                                     *)
(*                                                                         *)
(* Time.  Date.now() is an integer number of milliseconds counted from a   *)
(* model epoch that falls on a UTC midnight.  A Date object is the record  *)
(* [day, ms]: whole UTC days since the epoch and milliseconds into that    *)
(* day, so that twelve weeks of milliseconds never leave 32 bits.  The     *)
(* server's time zone is a fixed offset tz (minutes east of UTC); daylight *)
(* saving transitions are not modelled.                                    *)
(*                                                                         *)
(* Randomness.  Math.random() yields rationals k / RandDenom.  A random     *)
(* source is a sequence of RandPeriod such values, repeated for ever; the  *)
(* values are the two ends of [0, 1) and the two neighbours of 1/2.  Every *)
(* request draws its source (`seed`) nondeterministically.                 *)
(***************************************************************************)
EXTENDS Integers, Sequences, FiniteSets, TLC

VARIABLES
    now,            \* Date.now(), ms since the model epoch
    tz,             \* the server's UTC offset in minutes (fixed at start)
    token,          \* PREDICTHQ_TOKEN is set (fixed at start)
    calendarStore,  \* global.calendarStore: sessionId -> calendarData
    storeExists,    \* global.calendarStore has been created
    timers,         \* pending setTimeout callbacks: {[id, due]}
    inflight,       \* generate handlers suspended at `await axios.get`
    resp,           \* the last response written, with what its handler did
    minted,         \* history: the session ids handed out so far
    served,         \* history: sessionId -> [first, count] of 200 downloads
    nreq,           \* requests accepted so far
    ticks,          \* clock advances so far
    call            \* the last pure-function application [fn, args, out],
                    \* or the last run of the batch job with what it wrote

vars == <<now, tz, token, calendarStore, storeExists, timers, inflight, resp,
          minted, served, nreq, ticks, call>>

(***************************************************************************)
(* Bounds of the model.                                                    *)
(***************************************************************************)
RandDenom == 24
RandPeriod == 2
MaxWeeks == 12
MaxRequests == 4
MaxTicks == 3
MaxPipelineRequests == 2

Min(a, b) == IF a < b THEN a ELSE b

(***************************************************************************)
(* Dates.                                                                  *)
(***************************************************************************)
MinuteMs == 60 * 1000
HourMs == 60 * 60 * 1000
DayMs == 24 * 60 * 60 * 1000

\* A Date from a day count and a (possibly out of range) ms-of-day.
MkDate(day, ms) == [day |-> day + (ms \div DayMs), ms |-> ms % DayMs]

\* new Date() / new Date(Date.now()) at clock value t.
NewDate(t) == MkDate(0, t)

\* The local calendar fields of a Date in a zone tzMin minutes east of UTC.
LocalFields(d, tzMin) == MkDate(d.day, d.ms + tzMin * MinuteMs)

\* The Date whose local calendar fields are l.
FromLocalFields(l, tzMin) == MkDate(l.day, l.ms - tzMin * MinuteMs)

\* d.setDate(d.getDate() + n): the local calendar day moves, the local time
\* of day stays.
AddDays(d, n, tzMin) ==
    LET l == LocalFields(d, tzMin)
    IN  FromLocalFields([day |-> l.day + n, ms |-> l.ms], tzMin)

\* d.setHours(h, m, 0, 0): the local time of day is replaced.
SetHours(d, h, m, tzMin) ==
    LET l == LocalFields(d, tzMin)
    IN  FromLocalFields([day |-> l.day, ms |-> h * HourMs + m * MinuteMs], tzMin)

\* new Date(d.getTime() + delta)
AddMs(d, delta) == MkDate(d.day, d.ms + delta)

\* d.toISOString(): the UTC date and the UTC time of day, as text.
ToISOString(d) == [utcDate |-> d.day, utcTime |-> d.ms]

\* new Date(isoString)
ParseISO(s) == MkDate(s.utcDate, s.utcTime)

LocalDay(d, tzMin) == LocalFields(d, tzMin).day
LocalHour(d, tzMin) == LocalFields(d, tzMin).ms \div HourMs
LocalMinute(d, tzMin) == (LocalFields(d, tzMin).ms % HourMs) \div MinuteMs

DateLess(a, b) == a.day < b.day \/ (a.day = b.day /\ a.ms < b.ms)

\* b.getTime() - a.getTime(), for dates at most a few days apart
DiffMs(a, b) == (b.day - a.day) * DayMs + (b.ms - a.ms)

(***************************************************************************)
(* Math.random().                                                          *)
(***************************************************************************)
\* the numerators a draw can have
RandValues ==
    << 0, (RandDenom \div 2) - 1, (RandDenom \div 2) + 1, RandDenom - 1 >>

\* the random sources
Seeds == [1 .. RandPeriod -> 1 .. Len(RandValues)]

\* numerator of the i-th draw (i = 0, 1, ...) of source `seed`: the draw is
\* Rnd / RandDenom
Rnd(seed, i) == RandValues[seed[(i % RandPeriod) + 1]]

\* Math.floor(Math.random() * n)
RndFloor(seed, i, n) == (Rnd(seed, i) * n) \div RandDenom

\* Math.random() > 0.5
RndOverHalf(seed, i) == 2 * Rnd(seed, i) > RandDenom

(***************************************************************************)
(* generateLocationEvents                                                  *)
(***************************************************************************)
Undefined == "undefined"

EventTemplates(cityName) ==
    ("public-holidays" :> << cityName \o " Public Holiday Celebration",
                              "National Day in " \o cityName,
                              cityName \o " Heritage Festival" >>) @@
    ("festivals" :> << cityName \o " Music Festival",
                        cityName \o " Art & Culture Festival",
                        cityName \o " Food & Wine Festival",
                        cityName \o " International Film Festival",
                        cityName \o " Street Art Festival" >>) @@
    ("concerts" :> << "Classical Concert at " \o cityName \o " Concert Hall",
                       "Jazz Night in " \o cityName,
                       "Rock Concert - " \o cityName \o " Arena",
                       "Chamber Music at " \o cityName \o " Opera House",
                       "Electronic Music Festival " \o cityName >>) @@
    ("sports" :> << cityName \o " Football Match",
                     cityName \o " Basketball Tournament",
                     cityName \o " Marathon",
                     "Tennis Open " \o cityName,
                     cityName \o " Cycling Championship" >>) @@
    ("academic" :> << cityName \o " University Conference",
                       "Research Symposium " \o cityName,
                       "Academic Workshop at " \o cityName,
                       "Student Exchange Program " \o cityName >>) @@
    ("conferences" :> << "Tech Conference " \o cityName,
                          "Business Summit " \o cityName,
                          "Innovation Forum " \o cityName,
                          "Startup Meetup " \o cityName >>) @@
    ("performing-arts" :> << "Theatre Performance " \o cityName,
                              "Opera Gala " \o cityName,
                              "Ballet Show " \o cityName,
                              "Comedy Night " \o cityName >>)

\* locationInfo.cityName || 'Local Area'
SynthCityName(cityName) ==
    IF cityName = Undefined \/ cityName = "" THEN "Local Area" ELSE cityName

\* const startDate = new Date(); startDate.setDate(startDate.getDate() + 1)
SynthStartDate(t, tzMin) == AddDays(NewDate(t), 1, tzMin)

\* A variant without the final slice.
SynthNoSlice(events) == events

\* the slice that ends generateLocationEvents
SynthSlice(events) == SubSeq(events, 1, Min(Len(events), 140))

\* const startHour = 9 + Math.floor(Math.random() * 12)
SynthStartHour(seed, i) == 9 + RndFloor(seed, i, 12)

\* const startMinute = Math.random() > 0.5 ? 0 : 30
SynthStartMinute(seed, i) == IF RndOverHalf(seed, i) THEN 0 ELSE 30

\* A variant whose durations run from one to five hours.
SynthDurationUpToFiveHours(seed, i) ==
    HourMs + ((Rnd(seed, i) * 4 * HourMs) \div RandDenom)

\* (1 + Math.random() * 3) * 60 * 60 * 1000, cut to whole milliseconds by
\* new Date(...)
SynthDurationMs(seed, i) ==
    HourMs + ((Rnd(seed, i) * 3 * HourMs) \div RandDenom)

\* One event of the inner loop; its five draws start at draw i.
SynthEvent(startDate, tzMin, eventTemplates, categoryList, dayNo, seed, i) ==
    LET category == categoryList[RndFloor(seed, i, Len(categoryList)) + 1]
        templates == IF category \in DOMAIN eventTemplates
                     THEN eventTemplates[category]
                     ELSE eventTemplates["festivals"]
        title == templates[RndFloor(seed, i + 1, Len(templates)) + 1]
        eventDate == AddDays(startDate, dayNo, tzMin)
        startHour == SynthStartHour(seed, i + 2)
        startMinute == SynthStartMinute(seed, i + 3)
        eventStartTime == SetHours(eventDate, startHour, startMinute, tzMin)
        durationMs == SynthDurationMs(seed, i + 4)
        eventEndTime == AddMs(eventStartTime, durationMs)
    IN  [title |-> title,
         start |-> ToISOString(eventStartTime),
         end |-> ToISOString(eventEndTime),
         category |-> category]

\* A variant that draws 2 to 4 events a day.
EventsPerDayUpToFour(seed, i) == RndFloor(seed, i, 3) + 2

\* const eventsPerDay = Math.floor(Math.random() * 2) + 2
EventsPerDay(seed, i) == RndFloor(seed, i, 2) + 2

\* One pass of the body of the day loop, for day number dayNo = week*7 + day,
\* entered at draw i: the events pushed and the draw the next day starts at.
SynthDay(startDate, tzMin, eventTemplates, categoryList, seed, dayNo, i) ==
    LET eventsPerDay == EventsPerDay(seed, i)
    IN  [events |-> [j \in 1 .. eventsPerDay |->
                        SynthEvent(startDate, tzMin, eventTemplates,
                                   categoryList, dayNo, seed,
                                   i + 1 + 5 * (j - 1))],
         draws |-> i + 1 + 5 * eventsPerDay]

\* The two nested loops over week and day, for the day numbers first .. last
\* in order, entered at draw i.  The range is walked in halves (the second
\* half starts at the draw the first half ended at), which keeps the
\* evaluation shallow.
RECURSIVE SynthDays(_, _, _, _, _, _, _, _)
SynthDays(startDate, tzMin, eventTemplates, categoryList, seed, first, last, i) ==
    IF first > last
    THEN [events |-> << >>, draws |-> i]
    ELSE IF first = last
    THEN SynthDay(startDate, tzMin, eventTemplates, categoryList, seed, first, i)
    ELSE LET mid == (first + last) \div 2
             head == SynthDays(startDate, tzMin, eventTemplates, categoryList,
                               seed, first, mid, i)
             tail == SynthDays(startDate, tzMin, eventTemplates, categoryList,
                               seed, mid + 1, last, head.draws)
         IN  [events |-> head.events \o tail.events, draws |-> tail.draws]

\* One run of generateLocationEvents({cityName}, categories, weeks) at clock
\* value t, with categories already split at the commas (categoryList): the
\* list it returns and the number of draws it consumed.
SynthRun(t, tzMin, cityName, categoryList, weeks, seed) ==
    LET run == SynthDays(SynthStartDate(t, tzMin), tzMin,
                         EventTemplates(SynthCityName(cityName)),
                         categoryList, seed, 0, weeks * 7 - 1, 0)
    IN  [events |-> SynthSlice(run.events), draws |-> run.draws]

GenerateLocationEvents(t, tzMin, cityName, categoryList, weeks, seed) ==
    SynthRun(t, tzMin, cityName, categoryList, weeks, seed).events

(***************************************************************************)
(* normalizeEvents (utils.js)                                              *)
(***************************************************************************)
\* A JSON object is a record; a property the object lacks is outside its
\* DOMAIN.  A date text is [utcDate, utcTime] (an ISO instant).
Has(obj, f) == f \in DOMAIN obj

\* a || b || c on text properties: the first that is present and non-empty
Truthy(obj, f) == Has(obj, f) /\ obj[f] /= ""

InvalidDate == [invalid |-> TRUE]

\* A variant that looks at name before title.
NormalTitleNameFirst(event) ==
    IF Truthy(event, "name") THEN event.name
    ELSE IF Truthy(event, "title") THEN event.title
    ELSE "Event"

\* event.title || event.name || 'Event'
NormalTitle(event) ==
    IF Truthy(event, "title") THEN event.title
    ELSE IF Truthy(event, "name") THEN event.name
    ELSE "Event"

\* new Date(event.start || event.start_local || event.date)
NormalStart(event) ==
    IF Has(event, "start") THEN ParseISO(event.start)
    ELSE IF Has(event, "start_local") THEN ParseISO(event.start_local)
    ELSE IF Has(event, "date") THEN ParseISO(event.date)
    ELSE InvalidDate

\* new Date(event.end || event.end_local || event.date)
NormalEnd(event) ==
    IF Has(event, "end") THEN ParseISO(event.end)
    ELSE IF Has(event, "end_local") THEN ParseISO(event.end_local)
    ELSE IF Has(event, "date") THEN ParseISO(event.date)
    ELSE InvalidDate

NormalizeEvents(predictHQEvents) ==
    [k \in 1 .. Len(predictHQEvents) |->
        [title |-> NormalTitle(predictHQEvents[k]),
         startDate |-> NormalStart(predictHQEvents[k]),
         endDate |-> NormalEnd(predictHQEvents[k])]]

\* null as a list element: reading a property of it throws a TypeError
JsNull == [isNull |-> TRUE]

\* A call of normalizeEvents: it throws when the map callback reads
\* event.title of null, and returns the mapped list otherwise.
TryNormalizeEvents(predictHQEvents) ==
    IF \E k \in 1 .. Len(predictHQEvents) : predictHQEvents[k] = JsNull
    THEN [threw |-> TRUE]
    ELSE [threw |-> FALSE, value |-> NormalizeEvents(predictHQEvents)]

(***************************************************************************)
(* generateICalendar (utils.js)                                            *)
(***************************************************************************)
maxEventsPerDay == 5
daysToFill == 28

\* getRandomTime(date): draws i (hour) and i + 1 (minute)
GetRandomTime(date, tzMin, seed, i) ==
    SetHours(date, RndFloor(seed, i, 14) + 8, RndFloor(seed, i + 1, 4) * 15, tzMin)

\* A variant whose durations include no time at all.
GetRandomDurationWithZero(seed, i) == << 0, 90, 120, 180 >>[RndFloor(seed, i, 4) + 1]

\* getRandomDuration(): minutes
GetRandomDuration(seed, i) == << 60, 90, 120, 180 >>[RndFloor(seed, i, 4) + 1]

\* The body of the while loop for input event eventIndex (0-based), placed on
\* currentDate; an event consumes three draws.
DistributedEvent(events, eventIndex, currentDate, tzMin, seed, i0) ==
    LET event == events[eventIndex + 1]
        eventStart == GetRandomTime(currentDate, tzMin, seed, i0 + 3 * eventIndex)
        duration == GetRandomDuration(seed, i0 + 3 * eventIndex + 2)
        eventEnd == AddMs(eventStart, duration * 60000)
    IN  [title |-> event.title, startDate |-> eventStart, endDate |-> eventEnd]

\* A variant that places up to six events on a day.
EventsForDayUpToSix(remaining) == Min(maxEventsPerDay + 1, remaining)

\* how often the while loop runs for one day, with `remaining` events left:
\* while (eventsForDay < maxEventsPerDay && eventIndex < events.length)
EventsForDay(remaining) == Min(maxEventsPerDay, remaining)

\* for (dayOffset ...; dayOffset < daysToFill && eventIndex < events.length)
\*   while (eventsForDay < maxEventsPerDay && eventIndex < events.length)
RECURSIVE DistributeDays(_, _, _, _, _, _, _, _)
DistributeDays(events, today, tzMin, seed, i0, dayOffset, eventIndex, acc) ==
    IF ~(dayOffset < daysToFill /\ eventIndex < Len(events))
    THEN acc
    ELSE LET currentDate == AddDays(today, dayOffset, tzMin)
             eventsForDay == EventsForDay(Len(events) - eventIndex)
             placed == [j \in 1 .. eventsForDay |->
                           DistributedEvent(events, eventIndex + j - 1,
                                            currentDate, tzMin, seed, i0)]
         IN  DistributeDays(events, today, tzMin, seed, i0, dayOffset + 1,
                            eventIndex + eventsForDay, acc \o placed)

\* A variant whose uid leaves the index out.
CreateEventWithoutIndex(event, t, index) ==
    [start |-> event.startDate,
     end |-> event.endDate,
     summary |-> event.title,
     description |-> "Event from PredictHQ",
     uid |-> << "predicthq", t >>]

\* calendar.createEvent for distributed event number index (0-based)
CreateEvent(event, t, index) ==
    [start |-> event.startDate,
     end |-> event.endDate,
     summary |-> event.title,
     description |-> "Event from PredictHQ",
     uid |-> << "predicthq", t, index >>]

\* generateICalendar(events) at clock value t; its draws start at draw i0.
\* The text calendar.toString() yields is kept as the calendar's properties
\* and its sequence of VEVENT blocks.
GenerateICalendar(events, t, tzMin, seed, i0) ==
    LET distributedEvents ==
            DistributeDays(events, NewDate(t), tzMin, seed, i0, 0, 0, << >>)
    IN  [name |-> "PredictHQ Events",
         timezone |-> "Europe/Berlin",
         vevents |-> [k \in 1 .. Len(distributedEvents) |->
                         CreateEvent(distributedEvents[k], t, k - 1)]]

(***************************************************************************)
(* POST /api/generate-calendar                                             *)
(***************************************************************************)
\* Request bodies.  location is [raw |-> text] for a text without '@', or
\* [radius, lat, lon, numeric] for '<radius>@<lat>,<lon>': lat and lon in
\* units of 1/CoordScale degree, numeric = FALSE when Number() of a
\* coordinate is NaN.  categories is the comma-separated text, kept split.
CoordScale == 10

\* A variant that never rejects a request for its location.
LocationNeverMissing(req) == FALSE

\* if (!location)
LocationMissing(req) == ~Has(req, "location") \/ req.location = [raw |-> ""]

\* const { ..., weeks = 4, ... } = req.body
WeeksOf(req) == IF Has(req, "weeks") THEN req.weeks ELSE 4

CityNameOf(req) == IF Has(req, "cityName") THEN req.cityName ELSE Undefined

\* A variant that calls the provider whether or not a token is set.
UseProviderAlways(tok) == TRUE

\* if (PREDICTHQ_TOKEN)
UseProvider(tok) == tok

\* The filter callback: is the provider event close to the target?
IsLocalEvent(event, location) ==
    IF ~Has(event, "location") \/ ~event.location.isArray
    THEN FALSE
    ELSE LET dLat == event.location.lat - location.lat
             dLon == event.location.lon - location.lon
         IN  /\ location.numeric
             \* Math.sqrt(dLat^2 + dLon^2) < 1, in units of 1/CoordScale
             /\ dLat * dLat + dLon * dLon < CoordScale * CoordScale

LocalEvents(predictHQEvents, location) ==
    SelectSeq(predictHQEvents, LAMBDA event : IsLocalEvent(event, location))

\* A variant that asks for more than ten local events.
MoreThanTenLocalEvents(localEvents) == Len(localEvents) > 10

\* if (localEvents.length >= 10)
EnoughLocalEvents(localEvents) == Len(localEvents) >= 10

\* A variant whose catch block does not switch to generated events.
CatchWithoutFallback == [events |-> << >>, useGeneratedEvents |-> FALSE]

\* catch (predictHQError) { useGeneratedEvents = true }
CatchProviderError == [events |-> << >>, useGeneratedEvents |-> TRUE]

\* The try block around the provider call, from the response on: what events
\* and useGeneratedEvents are when it is left.  outcome is what axios.get
\* produced: [kind |-> "error"] (it threw: network failure or a status
\* outside 2xx), [kind |-> "ok"] with or without data and data.results.
ProviderDecision(req, outcome) ==
    IF outcome.kind = "error" \/ ~outcome.hasData
    THEN CatchProviderError     \* axios threw, or response.data.results threw
    ELSE LET predictHQEvents ==
                 IF Has(outcome, "results") THEN outcome.results ELSE << >>
         IN  IF Len(predictHQEvents) > 0
             THEN IF Has(req.location, "raw")
                  THEN CatchProviderError   \* coords.split on undefined threw
                  ELSE LET localEvents ==
                               LocalEvents(predictHQEvents, req.location)
                       IN  IF EnoughLocalEvents(localEvents)
                           THEN [events |-> localEvents,
                                 useGeneratedEvents |-> FALSE]
                           ELSE [events |-> << >>, useGeneratedEvents |-> TRUE]
             ELSE [events |-> << >>, useGeneratedEvents |-> TRUE]

\* The decision when no provider call is made: the else of if (PREDICTHQ_TOKEN)
NoProviderDecision == [events |-> << >>, useGeneratedEvents |-> TRUE]

RetentionMs == 10 * 60 * 1000

\* A variant that sweeps nothing.
SweepNothing(store, t) == store

\* A variant that sweeps every entry up to the present one.
SweepUpToNow(store, t) ==
    [key \in {k \in DOMAIN store : ~(k <= t)} |-> store[key]]

\* Object.keys(store).forEach(key => parseInt(key) < tenMinutesAgo && delete)
Sweep(store, t) ==
    [key \in {k \in DOMAIN store : ~(k < t - RetentionMs)} |-> store[key]]

\* global.calendarStore[sessionId] = calendarData
StorePut(store, sessionId, calendarData) ==
    [key \in DOMAIN store \cup {sessionId} |->
        IF key = sessionId THEN calendarData ELSE store[key]]

\* A variant whose early returns sweep the store first.
SweepOnEarlyReturn(store, t) == Sweep(store, t)

\* return res.status(400 | 404).json(...) and the outer catch: the handler
\* ends without a statement that touches global.calendarStore
StoreOnEarlyReturn(store, t) == store

\* cityName: cityName || 'Unknown'
StoredCityName(cityName) ==
    IF cityName = Undefined \/ cityName = "" THEN "Unknown" ELSE cityName

\* A variant that never finds the event list empty.
NoEventsNever(events) == FALSE

\* if (events.length === 0)
NoEvents(events) == Len(events) = 0

\* A variant of the outer catch that answers without details.
CatchErrorWithoutDetails(details) ==
    [status |-> 500, events |-> << >>,
     body |-> [error |-> "Failed to generate calendar"]]

\* The outer catch: res.status(500).json({ error, details: error.message })
CatchError(details) ==
    [status |-> 500, events |-> << >>,
     body |-> [error |-> "Failed to generate calendar", details |-> details]]

\* The handler from `if (useGeneratedEvents)` to its end, run at clock value
\* now by request rid; decision is what the provider stage left.  It writes
\* the response and, on success, the store.
Complete(rid, req, decision, provider, seed) ==
    LET useGeneratedEvents == decision.useGeneratedEvents
        cityName == CityNameOf(req)
        trace == [n |-> rid, op |-> "generate", req |-> req, at |-> now,
                  provider |-> provider, generated |-> useGeneratedEvents,
                  seed |-> seed]
    IN  IF useGeneratedEvents /\ ~Has(req, "categories")
        THEN \* categories.split throws; the outer catch answers
             /\ resp' = trace @@ CatchError("TypeError")
             /\ calendarStore' = StoreOnEarlyReturn(calendarStore, now)
             /\ UNCHANGED <<storeExists, minted>>
        ELSE \E run \in { IF useGeneratedEvents
                          THEN SynthRun(now, tz, cityName, req.categories,
                                        WeeksOf(req), seed)
                          ELSE [events |-> decision.events, draws |-> 0] } :
             IF NoEvents(run.events)
             THEN /\ resp' = trace @@ [status |-> 404, events |-> run.events,
                       body |-> [error |->
                           "No events found for the specified criteria"]]
                  /\ calendarStore' = StoreOnEarlyReturn(calendarStore, now)
                  /\ UNCHANGED <<storeExists, minted>>
             ELSE \E normalizedEvents \in { NormalizeEvents(run.events) } :
                  LET sessionId == now
                      calendarData ==
                          [content |-> GenerateICalendar(normalizedEvents, now,
                                                         tz, seed, run.draws),
                           eventCount |-> Len(normalizedEvents),
                           timestamp |-> sessionId,
                           cityName |-> StoredCityName(cityName)]
                  IN  /\ minted' = minted \cup {sessionId}
                      /\ calendarStore' =
                             Sweep(StorePut(calendarStore, sessionId,
                                            calendarData), now)
                      /\ storeExists' = TRUE
                      /\ resp' = trace @@ [status |-> 200, events |-> run.events,
                           body |-> [success |-> TRUE,
                                     downloadUrl |-> sessionId,
                                     eventCount |-> Len(normalizedEvents),
                                     generated |-> useGeneratedEvents,
                                     events |-> normalizedEvents,
                                     sessionId |-> sessionId]]

\* A generate request arrives.  Without a location it is answered at once;
\* with a token the handler issues its one provider request and is suspended
\* at the await; without a token it runs to its end.
GenerateCalendar(req, seed) ==
    /\ nreq' = nreq + 1
    /\ IF LocationMissing(req)
       THEN /\ resp' = [n |-> nreq + 1, op |-> "generate", req |-> req,
                        at |-> now, provider |-> [kind |-> "none"],
                        generated |-> FALSE, events |-> << >>, status |-> 400,
                        body |-> [error |-> "Location is required"]]
            /\ calendarStore' = StoreOnEarlyReturn(calendarStore, now)
            /\ UNCHANGED <<storeExists, minted, inflight>>
       ELSE IF UseProvider(token)
            THEN /\ inflight' = inflight \cup {[n |-> nreq + 1, req |-> req]}
                 /\ UNCHANGED <<calendarStore, storeExists, minted, resp>>
            ELSE /\ Complete(nreq + 1, req, NoProviderDecision,
                             [kind |-> "none"], seed)
                 /\ UNCHANGED inflight
    /\ UNCHANGED <<now, tz, token, timers, served, ticks, call>>

\* The provider call of a suspended handler settles with `outcome`, and the
\* handler runs to its end.
ProviderSettles(p, outcome, seed) ==
    /\ p \in inflight
    /\ inflight' = inflight \ {p}
    /\ Complete(p.n, p.req, ProviderDecision(p.req, outcome), outcome, seed)
    /\ UNCHANGED <<now, tz, token, timers, served, nreq, ticks, call>>

(***************************************************************************)
(* GET /api/download/:sessionId                                            *)
(***************************************************************************)
\* A path segment that names a property every object inherits (constructor,
\* toString, __proto__): never a key the server mints.
InheritedKey == -1

GraceDelayMs == 1000

\* !global.calendarStore || !global.calendarStore[sessionId]
SessionNotFound(sessionId) ==
    \/ ~storeExists
    \/ (sessionId \notin DOMAIN calendarStore /\ sessionId /= InheritedKey)

\* A variant whose timer callback deletes nothing.
CleanupNothing(store, sessionId) == store

\* The timer callback: delete the session if it is (still) there.
CleanupSession(store, sessionId) ==
    [key \in DOMAIN store \ {sessionId} |-> store[key]]

\* A variant that sets no timer.
ScheduleNothing(pending, sessionId, t) == pending

\* setTimeout(..., 1000) at clock value t
ScheduleCleanup(pending, sessionId, t) ==
    pending \cup {[id |-> sessionId, due |-> t + GraceDelayMs]}

DownloadCalendar(sessionId) ==
    /\ nreq' = nreq + 1
    /\ LET trace == [n |-> nreq + 1, op |-> "download", id |-> sessionId,
                     at |-> now,
                     prior |-> IF sessionId \in DOMAIN served
                               THEN served[sessionId].count ELSE 0]
       IN  IF SessionNotFound(sessionId)
           THEN /\ resp' = trace @@ [status |-> 404, body |-> [error |->
                      "Calendar session not found or expired. Please generate a new calendar."]]
                /\ UNCHANGED <<timers, served>>
           ELSE IF sessionId \notin DOMAIN calendarStore
           THEN \* an inherited property: calendarData.cityName is undefined,
                \* .replace throws, the catch answers
                /\ resp' = trace @@ [status |-> 500, body |->
                      [error |-> "Failed to download calendar",
                       details |-> "TypeError"]]
                /\ UNCHANGED <<timers, served>>
           ELSE /\ resp' = trace @@ [status |-> 200,
                      body |-> calendarStore[sessionId].content]
                /\ timers' = ScheduleCleanup(timers, sessionId, now)
                /\ served' =
                      [k \in DOMAIN served \cup {sessionId} |->
                          IF k = sessionId
                          THEN IF k \in DOMAIN served
                               THEN [first |-> served[k].first,
                                     count |-> served[k].count + 1]
                               ELSE [first |-> now, count |-> 1]
                          ELSE served[k]]
    /\ UNCHANGED <<now, tz, token, calendarStore, storeExists, inflight,
                   minted, ticks, call>>

\* A cleanup timer that is due runs.
TimerFires(tm) ==
    /\ tm \in timers
    /\ tm.due <= now
    /\ timers' = timers \ {tm}
    /\ calendarStore' = CleanupSession(calendarStore, tm.id)
    /\ UNCHANGED <<now, tz, token, storeExists, inflight, resp, minted,
                   served, nreq, ticks, call>>

\* The clock advances by d ms; a timer runs no later than the millisecond
\* it is due in.
Tick(d) ==
    /\ \A tm \in timers : now + d <= tm.due
    /\ now' = now + d
    /\ ticks' = ticks + 1
    /\ UNCHANGED <<tz, token, calendarStore, storeExists, timers, inflight,
                   resp, minted, served, nreq, call>>

(***************************************************************************)
(* The inputs the model draws from.                                        *)
(***************************************************************************)
BerlinLocation ==
    [radius |-> "50km", lat |-> 525, lon |-> 134, numeric |-> TRUE]

\* the request body of the end-to-end example
BerlinRequest ==
    [location |-> BerlinLocation, categories |-> << "festivals" >>,
     weeks |-> 1, cityName |-> "Berlin"]

Requests ==
    { BerlinRequest,
      \* no location, and an empty one
      [categories |-> << "festivals" >>, weeks |-> 1, cityName |-> "Berlin"],
      [location |-> [raw |-> ""], categories |-> << "festivals" >>, weeks |-> 1],
      \* a location and nothing else
      [location |-> BerlinLocation],
      \* a text without '@'
      [location |-> [raw |-> "Berlin"],
       categories |-> << "concerts", "sports" >>, weeks |-> 2],
      \* coordinates that are not numbers
      [location |-> [radius |-> "50km", lat |-> 0, lon |-> 0, numeric |-> FALSE],
       categories |-> << "observances" >>, weeks |-> 1, cityName |-> ""],
      \* no weeks at all
      [location |-> BerlinLocation, categories |-> << "academic" >>,
       weeks |-> 0, cityName |-> "Berlin"] }

\* Offsets from Berlin, in 1/CoordScale degree: five inside the threshold,
\* one exactly on it, one far outside.
NearOffsets == << <<0, 0>>, <<3, 4>>, <<-5, 5>>, <<7, -7>>, <<-9, -4>> >>
OnThreshold == <<6, 8>>
FarOffset == <<30, 1>>

ProviderLocation(off) ==
    [isArray |-> TRUE, lon |-> BerlinLocation.lon + off[2],
     lat |-> BerlinLocation.lat + off[1]]

\* The i-th record of a provider batch of shape `shape`: 0 has every event
\* near Berlin, 1 has every fourth event on or beyond the threshold, 2 has
\* every third event without a coordinate array.
ProviderEvent(i, shape) ==
    LET base == [id |-> i, title |-> "Provider event",
                 start |-> [utcDate |-> 1 + i, utcTime |-> 18 * HourMs],
                 end |-> [utcDate |-> 1 + i, utcTime |-> 20 * HourMs]]
        near == ProviderLocation(NearOffsets[(i % Len(NearOffsets)) + 1])
    IN  IF shape = 1 /\ i % 4 = 0
        THEN base @@ [location |-> ProviderLocation(
                          IF i % 8 = 0 THEN OnThreshold ELSE FarOffset)]
        ELSE IF shape = 2 /\ i % 3 = 0
        THEN IF i % 6 = 0 THEN base
             ELSE base @@ [location |-> [isArray |-> FALSE]]
        ELSE base @@ [location |-> near]

MaxResults == 13

ProviderBatch(n, shape) == [i \in 1 .. n |-> ProviderEvent(i, shape)]

\* What axios.get can produce.
ProviderOutcomes ==
    { [kind |-> "error", status |-> 0],       \* no response at all
      [kind |-> "error", status |-> 401],
      [kind |-> "error", status |-> 500],
      [kind |-> "ok", hasData |-> FALSE],     \* a 2xx whose body is null
      [kind |-> "ok", hasData |-> TRUE] }     \* a 2xx body without results
    \cup { [kind |-> "ok", hasData |-> TRUE, results |-> ProviderBatch(n, 0)] :
              n \in {0, 9, 10} }
    \cup { [kind |-> "ok", hasData |-> TRUE,
            results |-> ProviderBatch(MaxResults, shape)] : shape \in 0 .. 2 }

StartOfRun == 15 * HourMs

\* Clock advances: half the grace delay, a minute, nine minutes.
Delays == { GraceDelayMs \div 2, MinuteMs, 9 * MinuteMs }

\* The ids a client can ask for: every id handed out, one that never was,
\* and an inherited property name.
DownloadIds == minted \cup { StartOfRun - 1, InheritedKey }

NoCall == [fn |-> "none"]

InitServer(zones, tokens, stores) ==
    /\ tz \in zones
    /\ token \in tokens
    /\ calendarStore \in stores
    /\ storeExists = (calendarStore /= << >>)
    /\ timers = {}
    /\ inflight = {}
    /\ resp = [n |-> 0, op |-> "none"]
    /\ minted = {}
    /\ served = << >>
    /\ nreq = 0
    /\ ticks = 0

(***************************************************************************)
(* Spec: the session store's life.  One kind of request (the end-to-end    *)
(* example, no provider token), downloads, cleanup timers and the clock.   *)
(***************************************************************************)
Init ==
    /\ InitServer({0}, {FALSE}, {<< >>})
    /\ now = StartOfRun
    /\ call = NoCall

\* the one random source of this specification: the lowest draw, for ever
StoreSeeds == { [j \in 1 .. RandPeriod |-> 1] }

Next ==
    \/ /\ nreq < MaxRequests
       /\ \E seed \in StoreSeeds : GenerateCalendar(BerlinRequest, seed)
    \/ /\ nreq < MaxRequests
       /\ \E sessionId \in DownloadIds : DownloadCalendar(sessionId)
    \/ \E tm \in timers : TimerFires(tm)
    \/ /\ ticks < MaxTicks
       /\ \E d \in Delays : Tick(d)

Spec == Init /\ [][Next]_vars

(***************************************************************************)
(* SpecPipeline: generate requests of any shape, with or without a         *)
(* provider token and whatever the provider answers, one after the other   *)
(* or both waiting for the provider, and the downloads that follow them.   *)
(* The clock stands still.                                                 *)
(***************************************************************************)
\* the random sources of this specification: the ones that yield only the
\* lowest and the highest draw, in every order
PipelineSeeds ==
    { seed \in Seeds :
        \A j \in 1 .. RandPeriod : seed[j] \in {1, Len(RandValues)} }

\* A session left by an earlier request, eleven minutes old and never
\* downloaded: what the store of a server that has been running can hold.
StaleId == StartOfRun - 11 * MinuteMs

StaleSession ==
    LET seed == [j \in 1 .. RandPeriod |-> 1]
        run == SynthRun(StaleId, 0, "Berlin", << "festivals" >>, 1, seed)
        normalizedEvents == NormalizeEvents(run.events)
    IN  [content |-> GenerateICalendar(normalizedEvents, StaleId, 0, seed,
                                       run.draws),
         eventCount |-> Len(normalizedEvents),
         timestamp |-> StaleId,
         cityName |-> "Berlin"]

StaleStore == StorePut(<< >>, StaleId, StaleSession)

\* The server is fresh, or has the stale session in its store.
InitPipeline ==
    /\ InitServer({0}, BOOLEAN, {<< >>, StaleStore})
    /\ now = StartOfRun
    /\ call = NoCall

NextPipeline ==
    \/ /\ nreq < MaxPipelineRequests
       /\ \E req \in Requests, seed \in PipelineSeeds :
             GenerateCalendar(req, seed)
    \/ \E p \in inflight, outcome \in ProviderOutcomes, seed \in PipelineSeeds :
          ProviderSettles(p, outcome, seed)
    \/ /\ nreq < MaxPipelineRequests
       /\ \E sessionId \in DownloadIds : DownloadCalendar(sessionId)

SpecPipeline == InitPipeline /\ [][NextPipeline]_vars

(***************************************************************************)
(* SpecLimits: generate requests for one, seven and twelve weeks, with or  *)
(* without a provider token, and provider answers of up to as many results *)
(* as the request's limit parameter asks for.                              *)
(***************************************************************************)
\* params.limit: the provider returns at most this many results
ProviderLimit == 140

MaxLimitRequests == 1

LimitRequests ==
    { [location |-> BerlinLocation, categories |-> << "festivals" >>,
       weeks |-> weeks, cityName |-> "Berlin"] : weeks \in {1, 7, MaxWeeks} }

\* the provider fails, or answers with 10, 11, 139 or 140 results, all of
\* them near the target or every fourth of them not
LimitOutcomes ==
    { [kind |-> "error", status |-> 500] }
    \cup { [kind |-> "ok", hasData |-> TRUE, results |-> ProviderBatch(n, shape)] :
              n \in {10, 11, ProviderLimit - 1, ProviderLimit}, shape \in 0 .. 1 }

InitLimits ==
    /\ InitServer({0}, BOOLEAN, {<< >>})
    /\ now = StartOfRun
    /\ call = NoCall

NextLimits ==
    \/ /\ nreq < MaxLimitRequests
       /\ \E req \in LimitRequests, seed \in PipelineSeeds :
             GenerateCalendar(req, seed)
    \/ \E p \in inflight, outcome \in LimitOutcomes, seed \in PipelineSeeds :
          ProviderSettles(p, outcome, seed)

SpecLimits == InitLimits /\ [][NextLimits]_vars

(***************************************************************************)
(* SpecFrame: requests that succeed and requests that fail, against a      *)
(* store that may hold an expired session, with downloads, their cleanup   *)
(* timers and the clock.                                                   *)
(***************************************************************************)
MaxFrameRequests == 2
MaxFrameTicks == 2

\* the end-to-end example (200), no location (400), no weeks (404), no
\* categories (500 when events are synthesized)
FrameRequests ==
    { BerlinRequest,
      [categories |-> << "festivals" >>, weeks |-> 1, cityName |-> "Berlin"],
      [location |-> BerlinLocation, categories |-> << "academic" >>,
       weeks |-> 0, cityName |-> "Berlin"],
      [location |-> BerlinLocation] }

\* the provider fails, or answers with ten events near the target
FrameOutcomes ==
    { [kind |-> "error", status |-> 500],
      [kind |-> "ok", hasData |-> TRUE, results |-> ProviderBatch(10, 0)] }

\* the stale session, the sessions minted, and a property every object has
FrameDownloadIds == minted \cup { StaleId, InheritedKey }

\* clock advances: the grace delay, and nine minutes
FrameDelays == { GraceDelayMs, 9 * MinuteMs }

InitFrame ==
    /\ InitServer({0}, BOOLEAN, {<< >>, StaleStore})
    /\ now = StartOfRun
    /\ call = NoCall

NextFrame ==
    \/ /\ nreq < MaxFrameRequests
       /\ \E req \in FrameRequests, seed \in StoreSeeds :
             GenerateCalendar(req, seed)
    \/ \E p \in inflight, outcome \in FrameOutcomes, seed \in StoreSeeds :
          ProviderSettles(p, outcome, seed)
    \/ /\ nreq < MaxFrameRequests
       /\ \E sessionId \in FrameDownloadIds : DownloadCalendar(sessionId)
    \/ \E tm \in timers : TimerFires(tm)
    \/ /\ ticks < MaxFrameTicks
       /\ \E d \in FrameDelays : Tick(d)

SpecFrame == InitFrame /\ [][NextFrame]_vars

(***************************************************************************)
(* SpecMalformed: generate requests whose location text is not of the form *)
(* '<radius>km@<lat>,<lon>', with or without a provider token and whatever *)
(* the provider answers.                                                   *)
(***************************************************************************)
MaxMalformedRequests == 1

\* Number(text) for the texts a coordinate is given as here: a blank text
\* converts to 0, a text that is no number and a missing one to NaN.  The
\* numbers are in units of 1/CoordScale degree.
JsNumber(text) ==
    CASE text = "" -> [nan |-> FALSE, value |-> 0]
      [] text = " " -> [nan |-> FALSE, value |-> 0]
      [] text = "52.5" -> [nan |-> FALSE, value |-> BerlinLocation.lat]
      [] text = "13.4" -> [nan |-> FALSE, value |-> BerlinLocation.lon]
      [] OTHER -> [nan |-> TRUE]

\* const [radius, coords] = location.split('@');
\* const [targetLat, targetLon] = coords.split(',').map(Number)
LocationOf(radius, latText, lonText) ==
    LET targetLat == JsNumber(latText)
        targetLon == JsNumber(lonText)
    IN  [radius |-> radius, texts |-> << latText, lonText >>,
         lat |-> IF targetLat.nan THEN 0 ELSE targetLat.value,
         lon |-> IF targetLon.nan THEN 0 ELSE targetLon.value,
         numeric |-> ~targetLat.nan /\ ~targetLon.nan]

\* 'Berlin', '50km@abc,def', '50km@52.5,abc', '50km@52.5', '50km@,' and
\* '50km@ ,'; and the well-formed '50km@52.5,13.4'
MalformedLocations ==
    { [raw |-> "Berlin"],
      LocationOf("50km", "abc", "def"),
      LocationOf("50km", "52.5", "abc"),
      LocationOf("50km", "52.5", Undefined),
      LocationOf("50km", "", ""),
      LocationOf("50km", " ", "") }

MalformedRequests ==
    { [location |-> location, categories |-> << "festivals" >>,
       weeks |-> weeks, cityName |-> "Berlin"] :
          location \in MalformedLocations
                          \cup { LocationOf("50km", "52.5", "13.4") },
          weeks \in {1, 2} }

\* n provider events within one degree of latitude 0, longitude 0
OriginBatch(n) ==
    [i \in 1 .. n |->
        [id |-> i, title |-> "Provider event",
         start |-> [utcDate |-> 1 + i, utcTime |-> 18 * HourMs],
         end |-> [utcDate |-> 1 + i, utcTime |-> 20 * HourMs],
         location |-> [isArray |-> TRUE,
                       lon |-> NearOffsets[(i % Len(NearOffsets)) + 1][2],
                       lat |-> NearOffsets[(i % Len(NearOffsets)) + 1][1]]]]

\* the provider fails, answers without a body, or answers with 0, 9 or 10
\* events near Berlin or near latitude 0, longitude 0
MalformedOutcomes ==
    { [kind |-> "error", status |-> 401],
      [kind |-> "ok", hasData |-> FALSE] }
    \cup { [kind |-> "ok", hasData |-> TRUE, results |-> ProviderBatch(n, 0)] :
              n \in {0, 10} }
    \cup { [kind |-> "ok", hasData |-> TRUE, results |-> OriginBatch(n)] :
              n \in {9, 10} }

InitMalformed ==
    /\ InitServer({0}, BOOLEAN, {<< >>})
    /\ now = StartOfRun
    /\ call = NoCall

NextMalformed ==
    \/ /\ nreq < MaxMalformedRequests
       /\ \E req \in MalformedRequests, seed \in StoreSeeds :
             GenerateCalendar(req, seed)
    \/ \E p \in inflight, outcome \in MalformedOutcomes, seed \in StoreSeeds :
          ProviderSettles(p, outcome, seed)

SpecMalformed == InitMalformed /\ [][NextMalformed]_vars

(***************************************************************************)
(* SpecSynth: generateLocationEvents applied to inputs drawn from bounded  *)
(* sets, at several times of day and in several time zones.                *)
(***************************************************************************)
SynthTimes == { StartOfRun, DayMs - 1 }
SynthZones == { -480, 0, 600 }
SynthCities == { "Berlin", Undefined }
SynthCategories == { << "festivals" >>, << "concerts", "nonsense" >> }
SynthWeeks == { -1, 0, 1, 6, 7, MaxWeeks }

\* the inputs are drawn at the start; the one action applies the function
InitSynth ==
    /\ InitServer(SynthZones, {FALSE}, {<< >>})
    /\ now \in SynthTimes
    /\ call \in [fn : {"pending"}, cityName : SynthCities,
                 categoryList : SynthCategories, weeks : SynthWeeks,
                 seed : Seeds]

ApplyGenerateLocationEvents ==
    /\ call.fn = "pending"
    /\ \E out \in { GenerateLocationEvents(now, tz, call.cityName,
                                           call.categoryList, call.weeks,
                                           call.seed) } :
          call' = [fn |-> "generateLocationEvents", cityName |-> call.cityName,
                   categoryList |-> call.categoryList, weeks |-> call.weeks,
                   seed |-> call.seed, out |-> out]
    /\ UNCHANGED <<now, tz, token, calendarStore, storeExists, timers,
                   inflight, resp, minted, served, nreq, ticks>>

NextSynth == ApplyGenerateLocationEvents

SpecSynth == InitSynth /\ [][NextSynth]_vars

(***************************************************************************)
(* SpecICal: generateICalendar applied to lists of normalized events of    *)
(* several lengths, on both sides of the 28 x 5 places it has.             *)
(***************************************************************************)
MaxEvents == 142

ICalSizes == { 0, 1, 5, 6, 11, 139, 140, 141, MaxEvents }

\* n normalized events with titles that tell them apart, on dates far from
\* today: every third one with its end before its start, every third one
\* with Invalid Dates
ICalInput(n) ==
    [k \in 1 .. n |->
        [title |-> "Event " \o ToString(k),
         startDate |-> IF k % 3 = 2 THEN InvalidDate
                       ELSE MkDate(100 + k, 18 * HourMs),
         endDate |-> IF k % 3 = 2 THEN InvalidDate
                     ELSE IF k % 3 = 0 THEN MkDate(100 + k, 3 * HourMs)
                     ELSE MkDate(100 + k, 20 * HourMs)]]

InitICal ==
    /\ InitServer(SynthZones, {FALSE}, {<< >>})
    /\ now \in SynthTimes
    /\ call \in [fn : {"pending"}, n : ICalSizes, seed : Seeds]

ApplyGenerateICalendar ==
    /\ call.fn = "pending"
    /\ \E events \in { ICalInput(call.n) } :
       \E out \in { GenerateICalendar(events, now, tz, call.seed, 0) } :
          call' = [fn |-> "generateICalendar", events |-> events,
                   seed |-> call.seed, out |-> out]
    /\ UNCHANGED <<now, tz, token, calendarStore, storeExists, timers,
                   inflight, resp, minted, served, nreq, ticks>>

NextICal == ApplyGenerateICalendar

SpecICal == InitICal /\ [][NextICal]_vars

(***************************************************************************)
(* The batch job (cron.js): fetchPredictHQEvents.                          *)
(***************************************************************************)
NoFile == [saved |-> FALSE]

\* How fs.writeFileSync behaves during one run.
Disks == { "ok", "failsOnce", "failsAlways" }

\* A variant of the catch block's list that holds nothing.
FallbackEventsNone(t) == << >>

\* const fallbackEvents = [{ title: 'Sample Event', startDate: new Date(),
\*                           endDate: new Date(Date.now() + 2 h) }]
FallbackEvents(t) ==
    << [title |-> "Sample Event",
        startDate |-> NewDate(t),
        endDate |-> AddMs(NewDate(t), 2 * HourMs)] >>

\* The try block after the await: the lists it handed to generateICalendar,
\* the text it saved, and whether it threw.
FetchTry(t, tzMin, outcome, disk, seed) ==
    IF outcome.kind = "error" \/ ~outcome.hasData
    THEN [serialized |-> << >>, file |-> NoFile, threw |-> TRUE]
    ELSE LET events ==
                 IF Has(outcome, "results") THEN outcome.results ELSE << >>
             normalized == TryNormalizeEvents(events)
         IN  IF normalized.threw
             THEN [serialized |-> << >>, file |-> NoFile, threw |-> TRUE]
             ELSE LET icsContent ==
                          GenerateICalendar(normalized.value, t, tzMin, seed, 0)
                  IN  IF disk = "ok"
                      THEN [serialized |-> << normalized.value >>,
                            file |-> [saved |-> TRUE, content |-> icsContent],
                            threw |-> FALSE]
                      ELSE [serialized |-> << normalized.value >>,
                            file |-> NoFile, threw |-> TRUE]

\* One run of fetchPredictHQEvents at clock value t: what it handed to
\* generateICalendar, the file it left, whether it took the catch block and
\* whether the promise it returns was rejected (the catch block threw).
FetchPredictHQEvents(t, tzMin, outcome, disk, seed) ==
    LET try == FetchTry(t, tzMin, outcome, disk, seed)
    IN  IF ~try.threw
        THEN [serialized |-> try.serialized, file |-> try.file,
              fellBack |-> FALSE, rejected |-> FALSE]
        ELSE LET fallbackEvents == FallbackEvents(t)
                 i0 == IF Len(try.serialized) = 0 THEN 0
                       ELSE 3 * Len(try.serialized[1])
                 icsContent == GenerateICalendar(fallbackEvents, t, tzMin,
                                                 seed, i0)
             IN  [serialized |-> Append(try.serialized, fallbackEvents),
                  file |-> IF disk = "failsAlways" THEN NoFile
                           ELSE [saved |-> TRUE, content |-> icsContent],
                  fellBack |-> TRUE,
                  rejected |-> disk = "failsAlways"]

(***************************************************************************)
(* SpecBatch: one run of the batch job, whatever the provider answers and  *)
(* however the disk behaves.                                               *)
(***************************************************************************)
BatchOutcomes ==
    ProviderOutcomes
    \cup { [kind |-> "ok", hasData |-> TRUE,
            results |-> << ProviderEvent(1, 0), JsNull >>] }

InitBatch ==
    /\ InitServer({0}, BOOLEAN, {<< >>})
    /\ now \in SynthTimes
    /\ call \in [fn : {"pending"}, outcome : BatchOutcomes, disk : Disks,
                 seed : PipelineSeeds]

RunFetchPredictHQEvents ==
    /\ call.fn = "pending"
    /\ call' = [fn |-> "fetchPredictHQEvents", outcome |-> call.outcome,
                disk |-> call.disk, seed |-> call.seed,
                out |-> FetchPredictHQEvents(now, tz, call.outcome, call.disk,
                                            call.seed)]
    /\ UNCHANGED <<now, tz, token, calendarStore, storeExists, timers,
                   inflight, resp, minted, served, nreq, ticks>>

NextBatch == RunFetchPredictHQEvents

SpecBatch == InitBatch /\ [][NextBatch]_vars

(***************************************************************************)
(* SpecNormalize: normalizeEvents applied to lists of provider records     *)
(* that have any subset of the seven fields it reads.                      *)
(***************************************************************************)
NormalFields ==
    { "title", "name", "start", "start_local", "end", "end_local", "date" }

\* The value of each field: every date field has a day of its own, so the
\* output tells which one was read.
NormalFieldValues(title, name) ==
    [title |-> title, name |-> name,
     start |-> [utcDate |-> 1, utcTime |-> 18 * HourMs],
     start_local |-> [utcDate |-> 2, utcTime |-> 20 * HourMs],
     end |-> [utcDate |-> 3, utcTime |-> 19 * HourMs],
     end_local |-> [utcDate |-> 4, utcTime |-> 21 * HourMs],
     date |-> [utcDate |-> 5, utcTime |-> 0]]

NormalTexts == { <<"Concert", "Show">>, <<"", "Show">>, <<"", "">> }

\* the records: any subset of the fields, a title and a name that may be ''
RawEvents ==
    { [f \in fields |-> NormalFieldValues(texts[1], texts[2])[f]] :
         fields \in SUBSET NormalFields, texts \in NormalTexts }

\* a few records to pair every record with
RawPartners ==
    { [title |-> "Other"],
      [name |-> "Named", date |-> [utcDate |-> 6, utcTime |-> 0]],
      \* an end before the start
      [title |-> "Backwards",
       start |-> [utcDate |-> 8, utcTime |-> 18 * HourMs],
       end |-> [utcDate |-> 7, utcTime |-> 18 * HourMs]] }

MaxNulls == 1

NormalizeInputs ==
    { << >> } \cup { << e >> : e \in RawEvents }
    \cup { << e, p >> : e \in RawEvents, p \in RawPartners }
    \cup { << p, e >> : e \in RawEvents, p \in RawPartners }
    \cup { [k \in 1 .. n + 1 |-> IF k <= n THEN JsNull ELSE [title |-> "Other"]] :
              n \in 1 .. MaxNulls }

InitNormalize ==
    /\ InitServer({0}, {FALSE}, {<< >>})
    /\ now = StartOfRun
    /\ call \in [fn : {"pending"}, events : NormalizeInputs]

ApplyNormalizeEvents ==
    /\ call.fn = "pending"
    /\ call' = [fn |-> "normalizeEvents", events |-> call.events,
                out |-> TryNormalizeEvents(call.events)]
    /\ UNCHANGED <<now, tz, token, calendarStore, storeExists, timers,
                   inflight, resp, minted, served, nreq, ticks>>

NextNormalize == ApplyNormalizeEvents

SpecNormalize == InitNormalize /\ [][NextNormalize]_vars

(***************************************************************************)
(* Properties.                                                             *)
(***************************************************************************)

\* C1: a session created at time T and not downloaded before is returned by
\* a download at T + 9 minutes and refused (404) by one at T + 11 minutes.
\* A session id is its creation time.
C1_RetrievableAt9GoneAt11 ==
    (resp.op = "download" /\ resp.id \in minted /\ resp.prior = 0) =>
        /\ resp.at = resp.id + 9 * MinuteMs => resp.status = 200
        /\ resp.at = resp.id + 11 * MinuteMs => resp.status = 404

\* C2: once the grace delay after the first successful download of a session
\* has elapsed, the session is absent from the store and every download of
\* it is answered 404, however many downloads the grace window served.
C2_AbsentAfterGrace ==
    /\ \A id \in DOMAIN served :
          now > served[id].first + GraceDelayMs => id \notin DOMAIN calendarStore
    /\ (resp.op = "download" /\ resp.id \in DOMAIN served
            /\ resp.at > served[resp.id].first + GraceDelayMs)
          => resp.status = 404

\* C2 witness: a session downloaded twice inside its grace window is refused
\* after it.
C2_Witness ==
    /\ resp.op = "download" /\ resp.status = 404
    /\ resp.id \in DOMAIN served
    /\ served[resp.id].count >= 2
    /\ resp.at > served[resp.id].first + GraceDelayMs
    /\ resp.id \notin DOMAIN calendarStore

\* C3 as stated: no session id is ever downloaded successfully twice.
C3_OneShot == \A id \in DOMAIN served : served[id].count <= 1

\* C3 amended: every successful download of a session id happens no later
\* than the grace delay after the first successful download of that id.
C3_ServedOnlyInsideGraceWindow ==
    (resp.op = "download" /\ resp.status = 200) =>
        /\ resp.id \in DOMAIN served
        /\ resp.at <= served[resp.id].first + GraceDelayMs

\* C3 witness: a second successful download, later than the first.
C3_Witness ==
    /\ resp.op = "download" /\ resp.status = 200
    /\ resp.prior >= 1
    /\ resp.at > served[resp.id].first

\* C4: a download of an id that the store does not hold is answered 404,
\* leaves the store as it is and schedules no deletion.
C4_UnknownIdIs404 ==
    [][ (resp'.n /= resp.n /\ resp'.op = "download"
            /\ resp'.id \notin DOMAIN calendarStore)
          => (resp'.status = 404 /\ UNCHANGED <<calendarStore, timers>>) ]_vars

\* C5: a generate request whose location is missing or empty is answered 400
\* 'Location is required', and the step that answers it issues no provider
\* request, synthesizes nothing, and neither creates nor sweeps a session.
C5_MissingLocationIs400 ==
    [][ (resp'.n /= resp.n /\ resp'.op = "generate"
            /\ (~Has(resp'.req, "location") \/ resp'.req.location = [raw |-> ""]))
          => /\ resp'.status = 400
             /\ resp'.body = [error |-> "Location is required"]
             /\ resp'.provider = [kind |-> "none"]
             /\ ~resp'.generated /\ resp'.events = << >>
             /\ UNCHANGED <<calendarStore, storeExists, minted, inflight,
                            timers>> ]_vars

\* C5 witness: a request with an empty location, sent to a server that has a
\* provider token and a session old enough to be swept, is answered 400 and
\* the old session is still stored.
C5_Witness ==
    /\ resp.op = "generate" /\ resp.status = 400
    /\ Has(resp.req, "location")
    /\ token
    /\ StaleId \in DOMAIN calendarStore
    /\ StaleId < resp.at - RetentionMs

\* C6: without a provider token the end-to-end request (Berlin, festivals,
\* one week) is answered success with an eventCount of 14 to 21 and a
\* download URL naming a stored session, and a download of a session made
\* without a token is answered 200 with that many event blocks.
C6_EndToEndWithoutToken ==
    /\ (~token /\ resp.op = "generate" /\ resp.req = BerlinRequest) =>
          /\ resp.status = 200
          /\ resp.body.success
          /\ resp.body.eventCount \in 14 .. 21
          /\ resp.body.downloadUrl \in DOMAIN calendarStore
          /\ calendarStore[resp.body.downloadUrl].eventCount = resp.body.eventCount
    /\ (~token /\ resp.op = "download" /\ resp.id \in minted) =>
          /\ resp.status = 200
          /\ Len(resp.body.vevents) = calendarStore[resp.id].eventCount

\* C6 witness: the download that follows an end-to-end request with the
\* largest event count.
C6_Witness ==
    /\ ~token /\ resp.op = "download" /\ resp.status = 200
    /\ calendarStore[resp.id].cityName = "Berlin"
    /\ calendarStore[resp.id].eventCount = 21
    /\ Len(resp.body.vevents) = 21

\* The relevance filter as C7 states it: the provider events that carry a
\* coordinate array and lie less than 1.0 degree (planar distance) from the
\* query center, in provider order.
C7_Retained(results, location) ==
    IF Has(location, "raw") THEN << >>
    ELSE SelectSeq(results, LAMBDA e :
            /\ Has(e, "location")
            /\ e.location.isArray
            /\ location.numeric
            /\ (e.location.lat - location.lat) * (e.location.lat - location.lat)
                 + (e.location.lon - location.lon) * (e.location.lon - location.lon)
               < CoordScale * CoordScale)

\* C7: of a provider result list only the events within the threshold are
\* retained; fewer than 10 retained means synthesized events, otherwise the
\* retained list, unchanged and in provider order, is the event list used.
C7_RelevanceFilter ==
    (resp.op = "generate" /\ resp.provider.kind = "ok"
        /\ Has(resp.provider, "results")) =>
        LET retained == C7_Retained(resp.provider.results, resp.req.location)
        IN  IF Len(retained) < 10
            THEN resp.generated
            ELSE ~resp.generated /\ resp.events = retained /\ resp.status = 200

\* C7 witness: thirteen provider events of which exactly ten are retained
\* and used.
C7_Witness ==
    /\ resp.op = "generate" /\ resp.provider.kind = "ok"
    /\ Has(resp.provider, "results")
    /\ Len(resp.provider.results) = 13
    /\ ~resp.generated
    /\ Len(resp.events) = 10
    /\ resp.status = 200

\* C8: without a token no provider request is ever outstanding, no generate
\* response rests on a provider answer, and the events of every request that
\* has a location are the ones generateLocationEvents yields.
C8_NoTokenNoProvider ==
    ~token =>
        /\ inflight = {}
        /\ resp.op = "generate" =>
              /\ resp.provider = [kind |-> "none"]
              /\ resp.status /= 400 => resp.generated
              /\ resp.status = 200 =>
                    resp.events =
                        GenerateLocationEvents(resp.at, tz, CityNameOf(resp.req),
                                               resp.req.categories,
                                               WeeksOf(resp.req), resp.seed)

\* C8 witness: a successful generate request without a token.
C8_Witness ==
    /\ ~token /\ resp.op = "generate" /\ resp.status = 200
    /\ Len(resp.events) > 0
    /\ Has(resp.events[1], "category")

\* the status a request with a location gets when its events are synthesized
C9_StatusWithoutToken(req) ==
    IF ~Has(req, "categories") THEN 500
    ELSE IF (IF Has(req, "weeks") THEN req.weeks ELSE 4) <= 0 THEN 404
    ELSE 200

C10_AtMost140FromTomorrow ==
    call.fn = "generateLocationEvents" =>
        /\ Len(call.out) <= 140
        /\ \A k \in 1 .. Len(call.out) :
              LocalDay(ParseISO(call.out[k].start), tz)
                  >= LocalDay(NewDate(now), tz) + 1

\* C10 witness: the cap is reached, late in the evening, and the first event
\* is tomorrow's.
C10_Witness ==
    /\ call.fn = "generateLocationEvents"
    /\ Len(call.out) = 140
    /\ now = DayMs - 1
    /\ LocalDay(ParseISO(call.out[1].start), tz) = LocalDay(NewDate(now), tz) + 1

\* C11: every event generateLocationEvents returns lasts at least one hour
\* and at most four (0 < end - start <= 4 hours), and starts, in the server's
\* local time, at an hour from 9 to 20 and at minute 0 or 30.
C11_DurationAndStartTime ==
    call.fn = "generateLocationEvents" =>
        \A k \in 1 .. Len(call.out) :
            LET start == ParseISO(call.out[k].start)
                end == ParseISO(call.out[k].end)
            IN  /\ DiffMs(start, end) > 0
                /\ DiffMs(start, end) >= HourMs
                /\ DiffMs(start, end) <= 4 * HourMs
                /\ LocalHour(start, tz) \in 9 .. 20
                /\ LocalMinute(start, tz) \in {0, 30}
                /\ LocalFields(start, tz).ms % MinuteMs = 0

\* C11 witness: one list holds an event at 20:30 that lasts more than three
\* and a half hours and an event at 9:00 that lasts exactly one hour.
C11_Witness ==
    /\ call.fn = "generateLocationEvents"
    /\ \E k \in 1 .. Len(call.out) :
          LET start == ParseISO(call.out[k].start)
          IN  /\ LocalHour(start, tz) = 20 /\ LocalMinute(start, tz) = 30
              /\ DiffMs(start, ParseISO(call.out[k].end)) > 7 * (HourMs \div 2)
    /\ \E k \in 1 .. Len(call.out) :
          LET start == ParseISO(call.out[k].start)
          IN  /\ LocalHour(start, tz) = 9 /\ LocalMinute(start, tz) = 0
              /\ DiffMs(start, ParseISO(call.out[k].end)) = HourMs

\* C12: generateICalendar places at most 5 events on any one day, only on
\* the 28 days that start today, and emits min(n, 140) events: the first
\* min(n, 140) of its input, in order; those from index 140 on are left out.
C12_FivePerDayIn28Days ==
    call.fn = "generateICalendar" =>
        LET vevents == call.out.vevents
            today == LocalDay(NewDate(now), tz)
        IN  /\ Len(vevents) = Min(Len(call.events), 140)
            /\ \A k \in 1 .. Len(vevents) :
                  /\ vevents[k].summary = call.events[k].title
                  /\ LocalDay(vevents[k].start, tz) \in today .. today + 27
            /\ \A d \in today .. today + 27 :
                  Cardinality({k \in 1 .. Len(vevents) :
                                  LocalDay(vevents[k].start, tz) = d}) <= 5

\* C12 witness: of more than 140 events 140 are placed, five of them on the
\* last of the 28 days.
C12_Witness ==
    /\ call.fn = "generateICalendar"
    /\ Len(call.events) > 140
    /\ Len(call.out.vevents) = 140
    /\ Cardinality({k \in 1 .. 140 :
           LocalDay(call.out.vevents[k].start, tz)
               = LocalDay(NewDate(now), tz) + 27}) = 5

\* C13 as stated: the calendar of n events holds exactly n event blocks with
\* pairwise distinct UIDs.
C13_ExactlyNBlocks ==
    call.fn = "generateICalendar" =>
        /\ Len(call.out.vevents) = Len(call.events)
        /\ \A j, k \in 1 .. Len(call.out.vevents) :
              j /= k => call.out.vevents[j].uid /= call.out.vevents[k].uid

\* C13 amended: the calendar of n events holds exactly min(n, 140) event
\* blocks, and their UIDs are pairwise distinct.
C13_BlocksUpTo140DistinctUids ==
    call.fn = "generateICalendar" =>
        /\ Len(call.events) <= 140 =>
              Len(call.out.vevents) = Len(call.events)
        /\ Len(call.events) > 140 => Len(call.out.vevents) = 140
        /\ \A j, k \in 1 .. Len(call.out.vevents) :
              j /= k => call.out.vevents[j].uid /= call.out.vevents[k].uid

\* C13 witness: 141 events in, 140 blocks out, the first and the last with
\* different UIDs.
C13_Witness ==
    /\ call.fn = "generateICalendar"
    /\ Len(call.events) = 141
    /\ Len(call.out.vevents) = 140
    /\ call.out.vevents[1].uid /= call.out.vevents[140].uid

\* C14: a generate request that has a location and whose event list is
\* empty after the fallback decision is answered 404 'No events found for
\* the specified criteria', and the step that answers it stores no session
\* and leaves the store as it is.
C14_NoEventsIs404 ==
    [][ (resp'.n /= resp.n /\ resp'.op = "generate"
            /\ Has(resp'.req, "location")
            /\ resp'.req.location /= [raw |-> ""]
            /\ Has(resp'.req, "categories")
            /\ Len(resp'.events) = 0)
          => /\ resp'.status = 404
             /\ resp'.body =
                    [error |-> "No events found for the specified criteria"]
             /\ UNCHANGED <<calendarStore, storeExists, minted>> ]_vars

\* C14 witness: weeks 0, a provider that failed, a 404, and a session old
\* enough to be swept still in the store.
C14_Witness ==
    /\ resp.op = "generate" /\ resp.status = 404
    /\ resp.req.weeks = 0
    /\ resp.provider.kind = "error"
    /\ resp.generated
    /\ StaleId \in DOMAIN calendarStore

C16_StoredTimesAreEventTimes ==
    (resp.op = "generate" /\ resp.status = 200
        /\ resp.body.sessionId \in DOMAIN calendarStore) =>
        LET vevents == calendarStore[resp.body.sessionId].content.vevents
            normalizedEvents == resp.body.events
        IN  /\ Len(vevents) = Len(normalizedEvents)
            /\ \A k \in 1 .. Len(vevents) :
                  /\ vevents[k].start = normalizedEvents[k].startDate
                  /\ vevents[k].end = normalizedEvents[k].endDate

\* C17: every successful generate request mints a session id that no
\* earlier request was given, and leaves every calendar already stored as
\* it is or removes it, never replaces it.
C17_FreshSessionKey ==
    [][ (resp'.n /= resp.n /\ resp'.op = "generate" /\ resp'.status = 200)
          => /\ resp'.body.sessionId \notin minted
             /\ \A key \in DOMAIN calendarStore \cap DOMAIN calendarStore' :
                   calendarStore'[key] = calendarStore[key] ]_vars

\* C18: right after a successful generate request completing at time t the
\* store holds no entry whose key is older than t - 10 minutes.
C18_SweptAfterGenerate ==
    (resp.op = "generate" /\ resp.status = 200 /\ resp.at = now) =>
        \A key \in DOMAIN calendarStore : ~(key < now - 10 * MinuteMs)

\* C18 witness: a successful generate request has just removed a session
\* that was older than ten minutes and had never been downloaded, and kept
\* a younger one.
C18_Witness ==
    /\ resp.op = "generate" /\ resp.status = 200 /\ resp.at = now
    /\ \E id \in minted :
          /\ id < now - 10 * MinuteMs
          /\ id \notin DOMAIN served
          /\ id \notin DOMAIN calendarStore
    /\ \E id \in DOMAIN calendarStore : id < now

\* C19: on a list of records, whichever of the fields they lack,
\* normalizeEvents does not throw; its output has the length and the order
\* of its input, and each title is the record's title if it has a non-empty
\* one, else its name if it has a non-empty one, else 'Event'.
C19_TitleOrderNoThrow ==
    (call.fn = "normalizeEvents"
        /\ \A k \in 1 .. Len(call.events) : call.events[k] /= JsNull) =>
        /\ ~call.out.threw
        /\ Len(call.out.value) = Len(call.events)
        /\ \A k \in 1 .. Len(call.events) :
              LET event == call.events[k]
                  title == call.out.value[k].title
              IN  /\ (Has(event, "title") /\ event.title /= "")
                        => title = event.title
                  /\ (~(Has(event, "title") /\ event.title /= "")
                        /\ Has(event, "name") /\ event.name /= "")
                        => title = event.name
                  /\ (~(Has(event, "title") /\ event.title /= "")
                        /\ ~(Has(event, "name") /\ event.name /= ""))
                        => title = "Event"

\* C19 witness: a record without any field, after a record with a title,
\* comes out second and as 'Event' with invalid dates.
C19_Witness ==
    /\ call.fn = "normalizeEvents"
    /\ Len(call.events) = 2
    /\ DOMAIN call.events[2] = {}
    /\ ~call.out.threw
    /\ call.out.value[1].title = "Other"
    /\ call.out.value[2] =
          [title |-> "Event", startDate |-> InvalidDate, endDate |-> InvalidDate]

\* C20: the start is read from start_local if the record has it, else from
\* start, else from date; the end from end_local, else end, else date.
C20_PrefersLocalFields ==
    (call.fn = "normalizeEvents" /\ ~call.out.threw) =>
        \A k \in 1 .. Len(call.events) :
            LET event == call.events[k]
                out == call.out.value[k]
            IN  /\ Has(event, "start_local")
                      => out.startDate = ParseISO(event.start_local)
                /\ (~Has(event, "start_local") /\ Has(event, "start"))
                      => out.startDate = ParseISO(event.start)
                /\ (~Has(event, "start_local") /\ ~Has(event, "start")
                      /\ Has(event, "date"))
                      => out.startDate = ParseISO(event.date)
                /\ Has(event, "end_local")
                      => out.endDate = ParseISO(event.end_local)
                /\ (~Has(event, "end_local") /\ Has(event, "end"))
                      => out.endDate = ParseISO(event.end)
                /\ (~Has(event, "end_local") /\ ~Has(event, "end")
                      /\ Has(event, "date"))
                      => out.endDate = ParseISO(event.date)

\* C21: every event normalizeEvents yields has a start before its end.
C21_StartBeforeEnd ==
    (call.fn = "normalizeEvents" /\ ~call.out.threw) =>
        \A k \in 1 .. Len(call.out.value) :
            LET event == call.out.value[k]
            IN  /\ event.startDate /= InvalidDate
                /\ event.endDate /= InvalidDate
                /\ DateLess(event.startDate, event.endDate)

\* C22: no list handed to generateICalendar is empty; in the batch job, an
\* empty provider result is not serialized.
C22_NeverSerializesEmptyList ==
    call.fn = "fetchPredictHQEvents" =>
        \A k \in 1 .. Len(call.out.serialized) :
            Len(call.out.serialized[k]) > 0

\* the batch run met a failure: the provider call failed, the body had no
\* data, a result could not be normalized, or the first write failed
C26_Failed ==
    \/ call.outcome.kind = "error"
    \/ ~call.outcome.hasData
    \/ (Has(call.outcome, "results")
          /\ \E k \in 1 .. Len(call.outcome.results) :
                call.outcome.results[k] = JsNull)
    \/ call.disk /= "ok"

\* C26: a batch run that met a failure and can write the file leaves the
\* fallback calendar, which holds exactly one event, 'Sample Event'; every
\* run that can write the file leaves a calendar file.
C26_FallbackCalendarSaved ==
    (call.fn = "fetchPredictHQEvents" /\ call.disk /= "failsAlways") =>
        /\ call.out.file.saved
        /\ ~call.out.rejected
        /\ C26_Failed =>
              /\ call.out.fellBack
              /\ Len(call.out.file.content.vevents) = 1
              /\ call.out.file.content.vevents[1].summary = "Sample Event"

\* C26 witness: the provider answered 401 and the file holds the one
\* sample event.
C26_Witness ==
    /\ call.fn = "fetchPredictHQEvents"
    /\ call.outcome = [kind |-> "error", status |-> 401]
    /\ call.out.file.saved
    /\ Len(call.out.file.content.vevents) = 1
    /\ call.out.file.content.vevents[1].summary = "Sample Event"

\* how many events of the last generateLocationEvents result start on the
\* d-th day of the window (d = 0 is tomorrow)
C23_EventsOnDay(d) ==
    Cardinality({k \in 1 .. Len(call.out) :
                    LocalDay(ParseISO(call.out[k].start), tz)
                        = LocalDay(NewDate(now), tz) + 1 + d})

\* C23 as stated: for weeks from 1 to 12 each of the weeks*7 days that
\* start tomorrow carries 2 or 3 events.
C23_EveryDayTwoOrThree ==
    (call.fn = "generateLocationEvents" /\ call.weeks \in 1 .. 12) =>
        \A d \in 0 .. call.weeks * 7 - 1 : C23_EventsOnDay(d) \in {2, 3}

\* the day of the window on which the k-th event of the last
\* generateLocationEvents result starts (0 is tomorrow)
C23_DayOf(k) ==
    LocalDay(ParseISO(call.out[k].start), tz) - LocalDay(NewDate(now), tz) - 1

\* C23 amended: the days are filled in order with 2 or 3 events each until
\* the list holds 140 events; the day on which the 140th event falls may be
\* cut short and the days after it carry none.  For weeks from 1 to 6 the
\* list stays below 140 and every day carries 2 or 3.  Stated over the
\* list: it starts on day 0 and moves on one day at a time, never with
\* four events on one day, never leaving a day after one event, and it
\* ends either with the 140th event or on the last day with its second or
\* third event.
C23_TwoOrThreeUntilCap ==
    (call.fn = "generateLocationEvents" /\ call.weeks >= 1) =>
        LET n == Len(call.out)
        IN  /\ n >= 2 /\ n <= 140
            /\ C23_DayOf(1) = 0
            /\ C23_DayOf(n) <= call.weeks * 7 - 1
            /\ \A k \in 1 .. n - 1 :
                  \/ C23_DayOf(k + 1) = C23_DayOf(k)
                  \/ /\ C23_DayOf(k + 1) = C23_DayOf(k) + 1
                     /\ k >= 2
                     /\ C23_DayOf(k - 1) = C23_DayOf(k)
            /\ \A k \in 1 .. n - 3 : C23_DayOf(k + 3) > C23_DayOf(k)
            /\ (n < 140 \/ call.weeks <= 6) =>
                  /\ n < 140
                  /\ C23_DayOf(n) = call.weeks * 7 - 1
                  /\ C23_DayOf(n - 1) = C23_DayOf(n)

\* C23 witness: seven weeks asked for, 140 events returned, the first day
\* of the window filled and the last day of the window empty.
C23_Witness ==
    /\ call.fn = "generateLocationEvents" /\ call.weeks = 7
    /\ Len(call.out) = 140
    /\ C23_EventsOnDay(0) \in {2, 3}
    /\ C23_EventsOnDay(48) = 0

\* C24: generateICalendar consumes its input in order and fills the days
\* greedily: the input event with index i < 140 is placed on day
\* floor(i / 5) counted from today, so a day receives an event only after
\* every earlier day has 5, and the output order is the input order.
C24_GreedyFiveADay ==
    call.fn = "generateICalendar" =>
        LET vevents == call.out.vevents
            today == LocalDay(NewDate(now), tz)
        IN  /\ \A i \in 0 .. Min(Len(call.events), 140) - 1 :
                  /\ i + 1 <= Len(vevents)
                  /\ vevents[i + 1].summary = call.events[i + 1].title
                  /\ LocalDay(vevents[i + 1].start, tz) = today + (i \div 5)
            /\ \A j, k \in 1 .. Len(vevents) :
                  j < k => ~DateLess(LocalFields(vevents[k].start, tz),
                                     [day |-> LocalDay(vevents[j].start, tz),
                                      ms |-> 0])

\* C24 witness: of eleven events the fifth is placed today, the sixth
\* tomorrow and the eleventh the day after.
C24_Witness ==
    /\ call.fn = "generateICalendar"
    /\ Len(call.events) = 11
    /\ LocalDay(call.out.vevents[5].start, tz) = LocalDay(NewDate(now), tz)
    /\ LocalDay(call.out.vevents[6].start, tz) = LocalDay(NewDate(now), tz) + 1
    /\ LocalDay(call.out.vevents[11].start, tz) = LocalDay(NewDate(now), tz) + 2
    /\ call.out.vevents[11].summary = "Event 11"

\* C25: every event generateICalendar emits, whatever the start and end of
\* the input record, starts at an hour from 8 to 21 and a minute in
\* {0, 15, 30, 45} and ends 60, 90, 120 or 180 minutes later; so its start
\* is before its end.
C25_TimesReassigned ==
    call.fn = "generateICalendar" =>
        \A k \in 1 .. Len(call.out.vevents) :
            LET start == call.out.vevents[k].start
                end == call.out.vevents[k].end
            IN  /\ start /= InvalidDate /\ end /= InvalidDate
                /\ LocalHour(start, tz) \in 8 .. 21
                /\ LocalMinute(start, tz) \in {0, 15, 30, 45}
                /\ DiffMs(start, end) \in {60 * MinuteMs, 90 * MinuteMs,
                                           120 * MinuteMs, 180 * MinuteMs}
                /\ DateLess(start, end)

\* C25 witness: an input record with Invalid Dates is emitted starting at
\* 21:45 and ending three hours later, and one whose end is before its
\* start is emitted with its start before its end.
C25_Witness ==
    /\ call.fn = "generateICalendar"
    /\ Len(call.out.vevents) >= 3
    /\ call.events[2].startDate = InvalidDate
    /\ LocalHour(call.out.vevents[2].start, tz) = 21
    /\ LocalMinute(call.out.vevents[2].start, tz) = 45
    /\ DiffMs(call.out.vevents[2].start, call.out.vevents[2].end)
          = 180 * MinuteMs
    /\ DateLess(call.events[3].endDate, call.events[3].startDate)
    /\ DateLess(call.out.vevents[3].start, call.out.vevents[3].end)

C28_IsCalendarDataOf(entry, r) ==
    /\ entry.eventCount = Len(r.body.events)
    /\ entry.timestamp = r.body.sessionId
    /\ entry.cityName = StoredCityName(CityNameOf(r.req))
    /\ Len(entry.content.vevents) = Min(Len(r.body.events), 140)
    /\ \A k \in 1 .. Len(entry.content.vevents) :
          /\ entry.content.vevents[k].summary = r.body.events[k].title
          /\ entry.content.vevents[k].uid = << "predicthq", r.at, k - 1 >>

\* C28: when a generate request answers 200, the sessionId it returns is in
\* the store with that request's calendar data: the sweep of the same
\* request does not remove the entry just inserted, and insertion and sweep
\* are one step, whatever other requests are waiting for the provider.
C28_AnsweredSessionIsStored ==
    [][ (resp'.n /= resp.n /\ resp'.op = "generate" /\ resp'.status = 200)
          => /\ resp'.body.sessionId \in DOMAIN calendarStore'
             /\ C28_IsCalendarDataOf(calendarStore'[resp'.body.sessionId],
                                     resp')
             /\ inflight' \subseteq inflight ]_vars

\* C28 witness: the second request has been answered 200 while the first
\* is still waiting for the provider, and its session is in the store with
\* its events.
C28_Witness ==
    /\ resp.op = "generate" /\ resp.status = 200 /\ resp.n = 2
    /\ \E p \in inflight : p.n = 1
    /\ resp.body.sessionId \in DOMAIN calendarStore
    /\ C28_IsCalendarDataOf(calendarStore[resp.body.sessionId], resp)

\* a step in which a generate request is answered with one of `statuses`
C29_GenerateAnswered(statuses) ==
    resp'.n /= resp.n /\ resp'.op = "generate" /\ resp'.status \in statuses

\* C29: a generate request that ends with status 400, 404 or 500 leaves the
\* session store unchanged, adding no entry and sweeping none; so an entry
\* leaves the store only when a successful generate request sweeps it as
\* older than ten minutes, or when the grace-delay timer of a download of
\* that entry runs.
C29_FailedGenerateKeepsStore ==
    [][ /\ C29_GenerateAnswered({400, 404, 500}) =>
              UNCHANGED <<calendarStore, storeExists, minted>>
        /\ \A key \in DOMAIN calendarStore \ DOMAIN calendarStore' :
              \/ /\ C29_GenerateAnswered({200})
                 /\ key < now - RetentionMs
              \/ /\ resp' = resp
                 /\ \E tm \in timers \ timers' :
                       tm.id = key /\ tm.due <= now /\ key \in DOMAIN served
      ]_vars

\* C29 witness: nine minutes into the run, when the stale session is twenty
\* minutes old, the second request is a generate request answered 500, and
\* the stale session is still in the store.
C29_Witness ==
    /\ resp.op = "generate" /\ resp.status = 500 /\ resp.n = 2
    /\ resp.at >= StartOfRun + 9 * MinuteMs
    /\ StaleId \in DOMAIN calendarStore
    /\ StaleId < now - RetentionMs

\* a location text without '@'
C30_NoAtSign(location) == Has(location, "raw") /\ location.raw /= ""

\* a location text with a coordinate that is blank
C30_BlankCoordinate(location) ==
    /\ Has(location, "texts")
    /\ \E i \in 1 .. 2 : location.texts[i] \in {"", " "}

\* a location text with a coordinate that is not the text of a number
C30_NonNumeric(location) ==
    /\ Has(location, "texts")
    /\ \E i \in 1 .. 2 : location.texts[i] \notin {"52.5", "13.4"}

\* a generate request with a malformed location, categories and weeks >= 1
\* has been answered
C30_MalformedAnswered ==
    /\ resp.op = "generate"
    /\ Has(resp.req, "location")
    /\ C30_NoAtSign(resp.req.location) \/ C30_NonNumeric(resp.req.location)
    /\ Has(resp.req, "categories")
    /\ WeeksOf(resp.req) >= 1

====
